---- MODULE Spec2Model ----
(***************************************************************************)
(* The appointment availability and booking engine of the plumbing         *)
(* contact-center (services/schedule_service.py over db/models.py).        *)
(*                                                                         *)
(* Time is a natural number of abstract units.  The database is the three  *)
(* tables tech_shifts, holds and appointments, each a sequence of rows in  *)
(* insertion order; the techs, skills, tech_skills and users tables are a  *)
(* fixed seed.  The schema is the one Base.metadata.create_all builds from *)
(* db/models.py: primary keys, foreign keys, the unique appointment_no,    *)
(* and nothing else.                                                       *)
(***************************************************************************)
EXTENDS Integers, Sequences, FiniteSets, TLC

(* ------------------------------ bounds -------------------------------- *)
\* the clock runs over 0..MaxTime
MaxTime == 3
\* rows the holds and appointments tables hold together
MaxRows == 2
\* rows the tech_shifts table holds
MaxShifts == 2
\* time units in one calendar day
DayLen == 3

Times == 0..MaxTime
None == -1

(* ---------------------------- seeded tables --------------------------- *)
\* techs joined with tech_skills: id -> active flag, skill names, calendar id,
\* and the offset of the tech's timezone (local = utc + tz).
Techs ==
    [ t1 |-> [active |-> TRUE,  skills |-> {"plumbing"}, cal |-> "c1",   tz |-> 0],
      t2 |-> [active |-> TRUE,  skills |-> {"plumbing"}, cal |-> "none", tz |-> 0],
      t3 |-> [active |-> FALSE, skills |-> {"plumbing"}, cal |-> "none", tz |-> 0],
      t4 |-> [active |-> TRUE,  skills |-> {"drain"},    cal |-> "none", tz |-> -1] ]

TechIds == DOMAIN Techs
Users == {"u1", "u2"}
Skills == {"plumbing", "drain"}

AppointmentStatus == {"scheduled", "completed", "canceled"}
RequestPriority == {"P1", "P2", "P3"}

(* --------------------------- interval utils --------------------------- *)
Interval(s, e) == [start |-> s, end |-> e]

Max(a, b) == IF a >= b THEN a ELSE b
Min(a, b) == IF a <= b THEN a ELSE b

_overlaps(a, b) == a.start < b.end /\ b.start < a.end

\* sorted(xs, key=lambda x: x.start): Python's sort is stable, so a row goes
\* after every row already placed whose start is <= its own.
RECURSIVE InsertByStart(_, _)
InsertByStart(sorted, x) ==
    IF sorted = <<>> THEN <<x>>
    ELSE IF Head(sorted).start <= x.start
         THEN <<Head(sorted)>> \o InsertByStart(Tail(sorted), x)
         ELSE <<x>> \o sorted

RECURSIVE SortFrom(_, _)
SortFrom(done, rest) ==
    IF rest = <<>> THEN done
    ELSE SortFrom(InsertByStart(done, Head(rest)), Tail(rest))

SortByStart(xs) == SortFrom(<<>>, xs)

\* the body of the inner loop of _subtract: what one free interval f leaves
\* once block b is cut out of it
CutOne(f, b) ==
    IF ~_overlaps(f, b) THEN <<f>>
    ELSE (IF f.start < b.start THEN <<Interval(f.start, b.start)>> ELSE <<>>)
         \o (IF b.end < f.end THEN <<Interval(b.end, f.end)>> ELSE <<>>)

RECURSIVE CutAll(_, _)
CutAll(free, b) ==
    IF free = <<>> THEN <<>>
    ELSE CutOne(Head(free), b) \o CutAll(Tail(free), b)

RECURSIVE SubtractLoop(_, _)
SubtractLoop(free, blocks) ==
    IF blocks = <<>> THEN free
    ELSE SubtractLoop(CutAll(free, Head(blocks)), Tail(blocks))

NonEmptyInterval(i) == i.end > i.start

_subtract(base, blocks) ==
    SelectSeq(SubtractLoop(<<base>>, SortByStart(blocks)), NonEmptyInterval)

\* the splitting loop with the cursor stepped by one unit of time instead of
\* by the duration
RECURSIVE SplitLoop_Stepped(_, _, _, _, _)
SplitLoop_Stepped(intervals, cur, out, duration, limit) ==
    IF intervals = <<>> THEN out
    ELSE IF cur + duration <= Head(intervals).end
         THEN LET out2 == Append(out, Interval(cur, cur + duration))
              IN  IF Len(out2) >= limit THEN out2
                  ELSE SplitLoop_Stepped(intervals, cur + 1, out2, duration, limit)
         ELSE IF Tail(intervals) = <<>> THEN out
              ELSE SplitLoop_Stepped(Tail(intervals), Head(Tail(intervals)).start,
                                     out, duration, limit)

\* _split_into_slots: the cursor walks each interval in steps of duration; the
\* limit is looked at only after a slot has been appended.
RECURSIVE SplitLoop(_, _, _, _, _)
SplitLoop(intervals, cur, out, duration, limit) ==
    IF intervals = <<>> THEN out
    ELSE IF cur + duration <= Head(intervals).end
         THEN LET out2 == Append(out, Interval(cur, cur + duration))
              IN  IF Len(out2) >= limit THEN out2
                  ELSE SplitLoop(intervals, cur + duration, out2, duration, limit)
         ELSE IF Tail(intervals) = <<>> THEN out
              ELSE SplitLoop(Tail(intervals), Head(Tail(intervals)).start, out,
                             duration, limit)

_split_into_slots(intervals, duration, limit) ==
    IF intervals = <<>> THEN <<>>
    ELSE SplitLoop(intervals, Head(intervals).start, <<>>, duration, limit)

SeqToSet(s) == {s[i] : i \in DOMAIN s}

(* -------------------------------- text -------------------------------- *)
\* a str is a sequence of characters
Digits == <<"0", "1", "2", "3", "4", "5", "6", "7", "8", "9">>
HexDigits == SeqToSet(Digits) \cup {"a", "b", "c", "d", "e", "f"}

\* the hex digits of a uuid: 32 in Python, scaled down
UuidLen == 2

IsDigit(ch) == \E i \in DOMAIN Digits : Digits[i] = ch
DigitValue(ch) == (CHOOSE i \in DOMAIN Digits : Digits[i] = ch) - 1

\* str(n) for n >= 0
RECURSIVE Str(_)
Str(n) ==
    IF n < 10 THEN <<Digits[n + 1]>>
    ELSE Str(n \div 10) \o <<Digits[(n % 10) + 1]>>

\* int(digits)
RECURSIVE ParseInt(_)
ParseInt(digits) ==
    IF digits = <<>> THEN 0
    ELSE 10 * ParseInt(SubSeq(digits, 1, Len(digits) - 1))
         + DigitValue(digits[Len(digits)])

\* s.lstrip(), s.rstrip(), s.strip()
RECURSIVE LStrip(_)
LStrip(s) == IF s # <<>> /\ Head(s) = " " THEN LStrip(Tail(s)) ELSE s

RECURSIVE RStrip(_)
RStrip(s) ==
    IF s # <<>> /\ s[Len(s)] = " " THEN RStrip(SubSeq(s, 1, Len(s) - 1)) ELSE s

Strip(s) == LStrip(RStrip(s))

\* re.match(r"#?(\d+)", s) accepting any tail after the digits
NumberGroup_Prefix(s) ==
    LET body == IF s # <<>> /\ Head(s) = "#" THEN Tail(s) ELSE s
        n == CHOOSE k \in 0..Len(body) :
                 /\ \A i \in 1..k : IsDigit(body[i])
                 /\ (k < Len(body) => ~IsDigit(body[k + 1]))
    IN  SubSeq(body, 1, n)

\* re.fullmatch(r"#?(\d+)", s): group 1, or <<>> when there is no match
NumberGroup(s) ==
    LET body == IF s # <<>> /\ Head(s) = "#" THEN Tail(s) ELSE s
    IN  IF body # <<>> /\ \A i \in DOMAIN body : IsDigit(body[i])
        THEN body ELSE <<>>

\* uuid.UUID(s) with the hyphens left in place
UUID_HyphensKept(s) ==
    IF Len(s) = UuidLen /\ \A i \in DOMAIN s : s[i] \in HexDigits
    THEN s ELSE <<>>

\* uuid.UUID(s): the hyphens are removed wherever they are, and what is left
\* must be UuidLen hex digits; <<>> stands for the ValueError
UUID(s) ==
    LET hex == SelectSeq(s, LAMBDA ch : ch # "-")
    IN  IF Len(hex) = UuidLen /\ \A i \in DOMAIN hex : hex[i] \in HexDigits
        THEN hex ELSE <<>>

\* str(u) of a uuid: the hex digits in hyphenated groups
UuidStr(u) == <<u[1], "-">> \o Tail(u)

(* ------------------------------- state -------------------------------- *)
VARIABLES
    now,      \* datetime.now(timezone.utc)
    shifts,   \* tech_shifts rows: [tech, start, end]
    holds,    \* holds rows: [id, tech, user, start, end, expires_at]
    appts,    \* appointments rows: [no, tech, user, start, end, status]
    ret,      \* the last operation, its arguments and what it returned
    calls,    \* per concurrent caller: the call in flight and where it stands
    rec       \* the CallRecorder of one call and its consumer task

vars == <<now, shifts, holds, appts, ret, calls, rec>>

\* what the operations that run as one transaction leave alone
others == <<calls, rec>>

RECURSIVE Concat(_)
Concat(ss) == IF ss = <<>> THEN <<>> ELSE Head(ss) \o Concat(Tail(ss))

Reverse(s) == [i \in DOMAIN s |-> s[Len(s) + 1 - i]]

(* ------------------------- get_available_times ------------------------ *)
\* Lower-casing of the skill names the model uses
Lower(s) == IF s = "PLUMBING" THEN "plumbing" ELSE IF s = "Drain" THEN "drain" ELSE s

\* Skill.name.ilike(skill): case-insensitive LIKE, in which the pattern "%"
\* matches every name
ilike(name, pattern) == pattern = "%" \/ Lower(name) = Lower(pattern)

\* select(Skill).where(Skill.name.ilike(skill)): the matching skill names
SkillRows(skill) == {n \in Skills : ilike(n, skill)}

\* horizon_days, in time units
Horizon(priority) ==
    (IF priority = "P1" THEN 1 ELSE IF priority = "P2" THEN 3 ELSE 7) * DayLen

\* the join without "AND t.active = TRUE"
TechRows_AnyActivity(skill_name, tech_order) ==
    SelectSeq(tech_order, LAMBDA t : skill_name \in Techs[t].skills)

\* techs t JOIN tech_skills ts WHERE ts.skill_id = :sid AND t.active = TRUE,
\* in the order tech_order in which the database returns the techs
TechRows(skill_name, tech_order) ==
    SelectSeq(tech_order,
              LAMBDA t : skill_name \in Techs[t].skills /\ Techs[t].active)

\* the tech_shifts rows of tech_ids that intersect [start_h, end_h), ordered by
\* start_ts; rows of equal start_ts come in the order the table scan yields them
ShiftRows(tech_ids, start_h, end_h, scan) ==
    SortByStart(SelectSeq(IF scan = "rev" THEN Reverse(shifts) ELSE shifts,
                          LAMBDA sh : /\ sh.tech \in SeqToSet(tech_ids)
                                      /\ sh.end > start_h
                                      /\ sh.start < end_h))

AsIntervals(rows) == [i \in DOMAIN rows |-> Interval(rows[i].start, rows[i].end)]

\* the appointments query without the filter on status
ApptBusy_AnyStatus(tid, start_h, end_h) ==
    AsIntervals(SelectSeq(appts, LAMBDA a : /\ a.tech = tid
                                            /\ a.end > start_h
                                            /\ a.start < end_h))

\* non-canceled appointments of tid that intersect the window
ApptBusy(tid, start_h, end_h) ==
    AsIntervals(SelectSeq(appts, LAMBDA a : /\ a.tech = tid
                                            /\ a.status # "canceled"
                                            /\ a.end > start_h
                                            /\ a.start < end_h))

\* the holds query without the filter on expires_at
HoldBusy_AnyExpiry(tid, start_h, end_h) ==
    AsIntervals(SelectSeq(holds, LAMBDA h : /\ h.tech = tid
                                            /\ h.end > start_h
                                            /\ h.start < end_h))

\* non-expired holds of tid that intersect the window
HoldBusy(tid, start_h, end_h) ==
    AsIntervals(SelectSeq(holds, LAMBDA h : /\ h.tech = tid
                                            /\ h.expires_at > now
                                            /\ h.end > start_h
                                            /\ h.start < end_h))

\* the calendar ids handed to _freebusy
CalIds(tech_ids) ==
    {Techs[tech_ids[i]].cal : i \in DOMAIN tech_ids} \ {"none"}

\* _freebusy: freebusy_batch is not called for an empty list of calendars
_freebusy(cal_ids, freebusy_batch) ==
    IF cal_ids = {} THEN <<>> ELSE freebusy_batch

\* the busy intervals Google reports for tid's calendar
GoogleBusy(tid, respect_google_busy, busy_by_cal) ==
    IF /\ respect_google_busy
       /\ Techs[tid].cal # "none"
       /\ Techs[tid].cal \in DOMAIN busy_by_cal
    THEN busy_by_cal[Techs[tid].cal]
    ELSE <<>>

\* busy_by_tech[tid] filled from the appointments alone
BusyByTech_ApptsOnly(tid, c) == ApptBusy(tid, c.start_h, c.end_h)

\* busy_by_tech[tid]
BusyByTech(tid, c) ==
    ApptBusy(tid, c.start_h, c.end_h) \o HoldBusy(tid, c.start_h, c.end_h)
        \o GoogleBusy(tid, c.respect_google_busy, c.busy_by_cal)

\* base_intervals: each shift of the tech clipped to the window
BaseIntervals(t_shifts, start_h, end_h) ==
    [i \in DOMAIN t_shifts |->
        Interval(Max(t_shifts[i].start, start_h), Min(t_shifts[i].end, end_h))]

\* free: every base interval minus the tech's busy blocks
FreeIntervals(base_intervals, blocks) ==
    Concat([i \in DOMAIN base_intervals |-> _subtract(base_intervals[i], blocks)])

\* the loop "for s in slots: results.append(...); if len(results) >= limit: break"
RECURSIVE AppendSlots(_, _, _, _, _)
AppendSlots(results, slots, tid, source, limit) ==
    IF slots = <<>> THEN results
    ELSE LET r2 == Append(results, [tech_id |-> tid, start |-> Head(slots).start,
                                    end |-> Head(slots).end, source |-> source])
         IN  IF Len(r2) >= limit THEN r2
             ELSE AppendSlots(r2, Tail(slots), tid, source, limit)

\* the slots of one tech, given the results gathered so far
TechSlots(tid, results, c) ==
    LET t_shifts == SelectSeq(c.shift_rows, LAMBDA sh : sh.tech = tid)
        free == FreeIntervals(BaseIntervals(t_shifts, c.start_h, c.end_h),
                              BusyByTech(tid, c))
    IN  _split_into_slots(SortByStart(free), c.duration,
                          Max(0, c.limit - Len(results)))

\* the loop "for tid in tech_ids"
RECURSIVE TechLoop(_, _, _)
TechLoop(tech_ids, results, c) ==
    IF tech_ids = <<>> THEN results
    ELSE LET tid == Head(tech_ids)
             r2 == AppendSlots(results, TechSlots(tid, results, c), tid,
                               c.source, c.limit)
         IN  IF Len(r2) >= c.limit THEN r2
             ELSE TechLoop(Tail(tech_ids), r2, c)

\* the results as the loop over the techs left them
SortResults_Omitted(results) == results

\* results.sort(key=lambda r: r["start"])
SortResults(results) == SortByStart(results)

\* the body of get_available_times after its guard.  q: the arguments;
\* tech_order, scan: the row orders the database answers in; freebusy_batch:
\* what the calendar collaborator answers
Search(q, tech_order, scan, freebusy_batch) ==
    LET start_h == IF q.date_from = None THEN now ELSE q.date_from
        end_h == IF q.date_to = None THEN start_h + Horizon(q.priority)
                 ELSE q.date_to
        skill_rows == SkillRows(q.skill)
    IN  IF skill_rows = {} THEN <<>>
        ELSE
        LET tech_ids == TechRows(CHOOSE n \in skill_rows : TRUE, tech_order)
        IN  IF tech_ids = <<>> THEN <<>>
            ELSE
            LET shift_rows == ShiftRows(tech_ids, start_h, end_h, scan)
            IN  IF shift_rows = <<>> THEN <<>>
                ELSE
                LET c == [shift_rows |-> shift_rows,
                          start_h |-> start_h,
                          end_h |-> end_h,
                          duration |-> q.duration_min,
                          limit |-> q.limit,
                          respect_google_busy |-> q.respect_google_busy,
                          busy_by_cal |-> IF q.respect_google_busy
                                          THEN _freebusy(CalIds(tech_ids), freebusy_batch)
                                          ELSE <<>>,
                          source |-> IF q.respect_google_busy THEN "db+google"
                                     ELSE "db"]
                IN  SortResults(TechLoop(tech_ids, <<>>, c))

\* the guard without its test of limit
get_available_times_LimitUnchecked(q, tech_order, scan, freebusy_batch) ==
    IF q.duration_min <= 0 THEN <<>>
    ELSE Search(q, tech_order, scan, freebusy_batch)

\* what get_available_times returns when it returns
get_available_times(q, tech_order, scan, freebusy_batch) ==
    IF q.duration_min <= 0 \/ q.limit <= 0 THEN <<>>
    ELSE Search(q, tech_order, scan, freebusy_batch)

\* scalar_one_or_none raises when the skill pattern matches several skills
skill_lookup_raises(q) ==
    /\ q.duration_min > 0 /\ q.limit > 0
    /\ Cardinality(SkillRows(q.skill)) > 1

(* ------------------------ the calendar collaborator ------------------- *)
\* what upsert_event may do: return an event, return None (as the stub does),
\* or raise
UpsertAnswers == {"event", "none", "raise"}

\* what delete_event may do: return, or raise
DeleteAnswers == {"ok", "raise"}

\* how an operation ends after calling upsert_event outside any try: what
\* upsert_event raises, the operation raises
AfterUpsert(upsert) == IF upsert = "raise" THEN "calendar_error" ELSE "ok"

\* what delete_event raises is caught: the operation returns
AfterDelete_Unguarded(delete) == IF delete = "raise" THEN "calendar_error" ELSE "ok"

\* how cancel_meeting ends after calling delete_event inside try/except
AfterDelete(delete) == "ok"

\* freebusy_batch raising, as an answer
FreeBusyError == [error |-> <<>>]
FreeBusyRaises(freebusy_batch) == "error" \in DOMAIN freebusy_batch

\* get_available_times raises what freebusy_batch raises: the call is
\* reached when Google is respected, the skill, a tech and a shift were found
\* and a tech has a calendar
get_available_times_raises(q, tech_order, scan, freebusy_batch) ==
    /\ q.duration_min > 0 /\ q.limit > 0
    /\ q.respect_google_busy
    /\ Cardinality(SkillRows(q.skill)) = 1
    /\ LET tech_ids == TechRows(CHOOSE n \in SkillRows(q.skill) : TRUE, tech_order)
           start_h == IF q.date_from = None THEN now ELSE q.date_from
           end_h == IF q.date_to = None THEN start_h + Horizon(q.priority)
                    ELSE q.date_to
       IN  /\ tech_ids # <<>>
           /\ ShiftRows(tech_ids, start_h, end_h, scan) # <<>>
           /\ CalIds(tech_ids) # {}
           /\ FreeBusyRaises(freebusy_batch)

(* ------------------------------ responses ----------------------------- *)
\* conversations that call the service at the same time
Callers == {"c1", "c2"}

\* a caller with no call in flight
Idle ==
    [pc |-> "idle", op |-> "none", status |-> "none", tech |-> "none",
     user |-> "none", start |-> None, end |-> None, expires_at |-> None,
     seen |-> {}]

NoQuery ==
    [skill |-> "", duration_min |-> 0, priority |-> "P3", date_from |-> None,
     date_to |-> None, limit |-> 0, respect_google_busy |-> FALSE]

\* what an operation hands back: status is "ok" or the error it raised; steps
\* are the commits, rollbacks and calendar calls it made, in order, and
\* calendar is what the calendar did when called
Response ==
    [op |-> "none", status |-> "ok", tech |-> "none", user |-> "none",
     start |-> None, end |-> None, no |-> None, expires_at |-> None,
     q |-> NoQuery, tech_order |-> <<>>, scan |-> "fwd", freebusy |-> <<>>,
     slots |-> <<>>, created |-> 0, steps |-> <<>>, calendar |-> "unused",
     ref |-> <<>>, record |-> <<>>, p |-> <<>>, deleted |-> 0]

(* ------------------------------ hold_slot ----------------------------- *)
\* the INSERT failing also on an exclusion constraint over all rows of holds,
\* the expired ones included
HoldInsertFails_Exclusion(h) ==
    \/ h.tech \notin TechIds
    \/ (h.user # "none" /\ h.user \notin Users)
    \/ \E i \in DOMAIN holds : holds[i].tech = h.tech /\ _overlaps(holds[i], h)

\* what makes the INSERT into holds fail: uuid.UUID(tech_id) does not parse or
\* the row breaks a foreign key (holds.tech_id, holds.user_id)
HoldInsertFails(h) ==
    \/ h.tech \notin TechIds
    \/ (h.user # "none" /\ h.user \notin Users)

\* the expiry without the cap at the end of the slot
ExpiresAt_Uncapped(end, ttl_seconds) == now + Max(1, ttl_seconds)

\* expires_at = min(end, now + timedelta(seconds=max(1, ttl_seconds)))
ExpiresAt(end, ttl_seconds) == Min(end, now + Max(1, ttl_seconds))

\* upsert: what upsert_event does if it is called
hold_slot(tech_id, user_id, start, end, ttl_seconds, show_tentative_on_google, upsert) ==
    LET expires_at == ExpiresAt(end, ttl_seconds)
        h == [id |-> Len(holds) + 1, tech |-> tech_id, user |-> user_id,
              start |-> start, end |-> end, expires_at |-> expires_at]
        r == [Response EXCEPT !.op = "hold_slot"]
        r2 == [r EXCEPT !.no = h.id, !.tech = tech_id, !.user = user_id,
                        !.start = start, !.end = end,
                        !.expires_at = expires_at, !.steps = <<"commit">>]
    IN  /\ Len(holds) + Len(appts) < MaxRows
        /\ IF HoldInsertFails(h)
           THEN /\ holds' = holds
                /\ ret' = [r EXCEPT !.status = "conflict"]
           ELSE /\ holds' = Append(holds, h)
                /\ ret' = IF show_tentative_on_google /\ Techs[tech_id].cal # "none"
                          THEN [r2 EXCEPT
                                  !.steps = <<"commit", "upsert_event">>,
                                  !.calendar = upsert,
                                  !.status = AfterUpsert(upsert)]
                          ELSE r2
        /\ UNCHANGED <<now, shifts, appts, others>>

(* ---------------------------- create_meeting -------------------------- *)
\* what makes the INSERT into appointments fail: a broken foreign key
\* (appointments.user_id, appointments.tech_id); appointment_no is generated
ApptInsertFails(a) ==
    \/ a.tech \notin TechIds
    \/ a.user \notin Users

\* a number computed by the application: the count of the live appointments
NextAppointmentNo_Counted ==
    Cardinality({i \in DOMAIN appts : appts[i].status # "canceled"})

\* appointment_no: Identity(start=0), generated by the database on INSERT
NextAppointmentNo == Len(appts)

\* id = uuid.uuid4(): a fresh string of UuidLen hex digits, here drawn from a
\* list of distinct ones.  The first is all decimal digits, as a uuid4 can be.
NewUuid ==
    IF Len(appts) = 0 THEN <<"1", "0">> ELSE <<"a", Digits[Len(appts) + 1]>>

\* the body of create_meeting, run on behalf of operation r.op; upsert: what
\* upsert_event does if it is called
CommitMeeting(r, user_id, tech_id, start, end, upsert) ==
    LET a == [id |-> NewUuid, no |-> NextAppointmentNo, tech |-> tech_id,
              user |-> user_id,
              start |-> start, end |-> end, status |-> "scheduled",
              request_text |-> "none", google_event_id |-> "none"]
        r2 == [r EXCEPT !.tech = tech_id, !.user = user_id, !.start = start,
                        !.end = end]
        r3 == [r2 EXCEPT !.no = a.no]
    IN  IF user_id \notin Users
        THEN appts' = appts /\ ret' = [r2 EXCEPT !.status = "user_not_found"]
        ELSE IF tech_id \notin TechIds
        THEN appts' = appts /\ ret' = [r2 EXCEPT !.status = "tech_not_found"]
        ELSE IF ApptInsertFails(a)
        THEN appts' = appts /\ ret' = [r2 EXCEPT !.status = "conflict"]
        ELSE IF Techs[tech_id].cal = "none"
        THEN /\ appts' = Append(appts, a)
             /\ ret' = [r3 EXCEPT !.steps = <<"commit">>]
        ELSE IF upsert = "event"
        THEN /\ appts' = Append(appts, [a EXCEPT !.google_event_id = "ev"])
             /\ ret' = [r3 EXCEPT !.calendar = upsert,
                          !.steps = <<"commit", "upsert_event", "commit">>]
        ELSE /\ appts' = Append(appts, a)
             /\ ret' = [r3 EXCEPT !.calendar = upsert,
                                  !.steps = <<"commit", "upsert_event">>,
                                  !.status = AfterUpsert(upsert)]

create_meeting(user_id, tech_id, start, end, upsert) ==
    /\ Len(holds) + Len(appts) < MaxRows
    /\ CommitMeeting([Response EXCEPT !.op = "create_meeting"],
                     user_id, tech_id, start, end, upsert)
    /\ UNCHANGED <<now, shifts, holds, others>>

(* ------------------------ create_earliest_meeting --------------------- *)
EarliestQuery(skill, duration_min, priority) ==
    [skill |-> skill, duration_min |-> duration_min, priority |-> priority,
     date_from |-> None, date_to |-> None, limit |-> 1,
     respect_google_busy |-> TRUE]

create_earliest_meeting(user_id, skill, duration_min, priority, tech_order, scan, freebusy_batch, upsert) ==
    LET q == EarliestQuery(skill, duration_min, priority)
        slots == get_available_times(q, tech_order, scan, freebusy_batch)
        r == [Response EXCEPT !.op = "create_earliest_meeting", !.q = q,
                              !.tech_order = tech_order, !.scan = scan,
                              !.freebusy = freebusy_batch]
    IN  /\ Len(holds) + Len(appts) < MaxRows
        /\ IF skill_lookup_raises(q)
           THEN appts' = appts /\ ret' = [r EXCEPT !.status = "multiple_rows"]
           ELSE IF get_available_times_raises(q, tech_order, scan, freebusy_batch)
           THEN appts' = appts /\ ret' = [r EXCEPT !.status = "freebusy_error"]
           ELSE IF slots = <<>>
           THEN appts' = appts /\ ret' = [r EXCEPT !.status = "no_availability"]
           ELSE CommitMeeting(r, user_id, slots[1].tech_id, slots[1].start,
                              slots[1].end, upsert)
        /\ UNCHANGED <<now, shifts, holds, others>>

(* ------------------- read / update / cancel by reference -------------- *)
\* select(Appointment).where(Appointment.appointment_no == number): the index
\* of the row, or 0
ByNumber(number) ==
    IF \E i \in DOMAIN appts : appts[i].no = number
    THEN CHOOSE i \in DOMAIN appts : appts[i].no = number
    ELSE 0

\* db.get(Appointment, u): the index of the row, or 0
ById(u) ==
    IF \E i \in DOMAIN appts : appts[i].id = u
    THEN CHOOSE i \in DOMAIN appts : appts[i].id = u
    ELSE 0

\* _resolve_appointment: the index of the row ref names, or 0 for None.  The
\* public number is tried first; a number no row has (one past the BIGINT
\* range raises inside the try and ends the same way) falls through to the
\* uuid.
_resolve_appointment(ref) ==
    LET s == Strip(ref)
        group == NumberGroup(s)
        by_number == IF group # <<>> THEN ByNumber(ParseInt(group)) ELSE 0
        u == UUID(s)
    IN  IF by_number # 0 THEN by_number
        ELSE IF u # <<>> THEN ById(u)
        ELSE 0

\* the dict read_meeting builds from the row
MeetingRecord(a) ==
    [id |-> UuidStr(a.id), appointment_no |-> a.no, user_id |-> a.user,
     tech_id |-> a.tech, start |-> a.start, end |-> a.end, status |-> a.status,
     request_text |-> a.request_text, google_event_id |-> a.google_event_id]

\* what read_meeting hands back for a reference
ReadOutcome(appointment_no) ==
    LET i == _resolve_appointment(appointment_no)
    IN  IF i = 0 THEN [status |-> "not_found", record |-> <<>>]
        ELSE [status |-> "ok", record |-> MeetingRecord(appts[i])]

read_meeting(appointment_no) ==
    /\ \E out \in {ReadOutcome(appointment_no)} :
          ret' = [Response EXCEPT !.op = "read_meeting", !.ref = appointment_no,
                                  !.status = out.status, !.record = out.record]
    /\ UNCHANGED <<now, shifts, holds, appts, others>>

\* what makes the UPDATE fail at commit: a status the appointment_status
\* enum does not have
UpdateCommitFails(a) == a.status \notin AppointmentStatus

\* update_meeting with the event synchronised before the commit
UpdateOutcome_SyncFirst(a, a2, upsert) ==
    LET synced == a2.google_event_id # "none" /\ Techs[a2.tech].cal # "none"
        first == IF synced THEN <<"upsert_event">> ELSE <<>>
        calendar == IF synced THEN upsert ELSE "unused"
    IN  IF synced /\ upsert = "raise"
        THEN [row |-> a, status |-> "calendar_error", steps |-> first,
              calendar |-> calendar]
        ELSE IF UpdateCommitFails(a2)
        THEN [row |-> a, status |-> "conflict",
              steps |-> first \o <<"rollback">>, calendar |-> calendar]
        ELSE [row |-> a2, status |-> "ok", steps |-> first \o <<"commit">>,
              calendar |-> calendar]

\* update_meeting from "Update DB first" on: a is the stored row, a2 the row
\* with the changes; the row left in the table, how the operation ends, the
\* commits, rollbacks and calendar calls it made and what the calendar did
UpdateOutcome(a, a2, upsert) ==
    IF UpdateCommitFails(a2)
    THEN [row |-> a, status |-> "conflict", steps |-> <<"rollback">>,
          calendar |-> "unused"]
    ELSE IF a2.google_event_id = "none" \/ Techs[a2.tech].cal = "none"
    THEN [row |-> a2, status |-> "ok", steps |-> <<"commit">>,
          calendar |-> "unused"]
    ELSE [row |-> a2, status |-> AfterUpsert(upsert),
          steps |-> IF upsert = "event"
                    THEN <<"commit", "upsert_event", "commit">>
                    ELSE <<"commit", "upsert_event">>,
          calendar |-> upsert]

\* "none" and None stand for an argument left out; upsert: what upsert_event
\* does if it is called
update_meeting(appointment_no, start, end, status, request_text, upsert) ==
    \E i \in {_resolve_appointment(appointment_no)} :
    LET r == [Response EXCEPT !.op = "update_meeting", !.ref = appointment_no]
    IN  /\ IF i = 0
           THEN appts' = appts /\ ret' = [r EXCEPT !.status = "not_found"]
           ELSE LET a == appts[i]
                    a2 == [a EXCEPT
                             !.start = IF start # None THEN start ELSE a.start,
                             !.end = IF end # None THEN end ELSE a.end,
                             !.status = IF status # "none" THEN status
                                        ELSE a.status,
                             !.request_text =
                                 IF request_text # "none" THEN request_text
                                 ELSE a.request_text]
                    out == UpdateOutcome(a, a2, upsert)
                IN  /\ appts' = [appts EXCEPT ![i] = out.row]
                    /\ ret' = [r EXCEPT !.no = a.no, !.status = out.status,
                                        !.steps = out.steps,
                                        !.calendar = out.calendar]
        /\ UNCHANGED <<now, shifts, holds, others>>

\* delete: what delete_event does if it is called
cancel_meeting(appointment_ref, delete) ==
    \E i \in {_resolve_appointment(appointment_ref)} :
    LET r == [Response EXCEPT !.op = "cancel_meeting", !.ref = appointment_ref]
    IN  /\ IF i = 0
           THEN appts' = appts /\ ret' = [r EXCEPT !.status = "not_found"]
           ELSE /\ appts' = [appts EXCEPT ![i].status = "canceled"]
                /\ ret' = IF appts[i].google_event_id # "none"
                             /\ Techs[appts[i].tech].cal # "none"
                          THEN [r EXCEPT !.no = appts[i].no,
                                         !.steps = <<"commit", "delete_event">>,
                                         !.calendar = delete,
                                         !.status = AfterDelete(delete)]
                          ELSE [r EXCEPT !.no = appts[i].no,
                                         !.steps = <<"commit">>]
        /\ UNCHANGED <<now, shifts, holds, others>>

(* -------------------- publish_availability_for_range ------------------ *)
\* a wall-clock range of day d in a timezone tz units ahead of UTC, as UTC
_local_range_to_utc(d, start_t, end_t, tz) ==
    <<d * DayLen + start_t - tz, d * DayLen + end_t - tz>>

\* date.weekday()
Weekday(d) == d % 7

\* the DELETE of publish_availability_for_range without "tech_id == t.id"
ClearedBy_AnyTech(sh, p, s_utc, e_utc) == sh.end > s_utc /\ sh.start < e_utc

\* delete(TechShift).where(tech_id == t.id, end_ts > s_utc, start_ts < e_utc)
ClearedBy(sh, p, s_utc, e_utc) ==
    sh.tech = p.tech_id /\ sh.end > s_utc /\ sh.start < e_utc

\* the loop that visits the first day only
RECURSIVE PublishLoop_FirstDayOnly(_, _, _, _, _)
PublishLoop_FirstDayOnly(cur, rows, created, deleted, p) ==
    IF cur > p.start_date
    THEN [rows |-> rows, created |-> created, deleted |-> deleted]
    ELSE IF p.weekdays = {None} \/ Weekday(cur) \in p.weekdays
    THEN LET utc == _local_range_to_utc(cur, p.start_time, p.end_time,
                                        Techs[p.tech_id].tz)
         IN  PublishLoop_FirstDayOnly(cur + 1,
                 Append(rows, [tech |-> p.tech_id, start |-> utc[1],
                               end |-> utc[2]]),
                 created + 1, deleted, p)
    ELSE PublishLoop_FirstDayOnly(cur + 1, rows, created, deleted, p)

\* the loop "while cur <= end_date": rows is the session's view of tech_shifts
\* (the rows added so far are flushed before each DELETE runs), deleted the
\* rows the DELETE statements removed
RECURSIVE PublishLoop(_, _, _, _, _)
PublishLoop(cur, rows, created, deleted, p) ==
    IF cur > p.end_date
    THEN [rows |-> rows, created |-> created, deleted |-> deleted]
    ELSE IF p.weekdays = {None} \/ Weekday(cur) \in p.weekdays
    THEN LET utc == _local_range_to_utc(cur, p.start_time, p.end_time,
                                        Techs[p.tech_id].tz)
             kept == IF p.clear_overlaps
                     THEN SelectSeq(rows, LAMBDA sh :
                              ~ClearedBy(sh, p, utc[1], utc[2]))
                     ELSE rows
         IN  PublishLoop(cur + 1,
                         Append(kept, [tech |-> p.tech_id, start |-> utc[1],
                                       end |-> utc[2]]),
                         created + 1, deleted + Len(rows) - Len(kept), p)
    ELSE PublishLoop(cur + 1, rows, created, deleted, p)

\* p: [tech_id, start_date, end_date, start_time, end_time, weekdays,
\*     clear_overlaps]; weekdays = {None} stands for weekdays=None
publish_availability_for_range(p) ==
    LET r == [Response EXCEPT !.op = "publish_availability_for_range", !.p = p]
    IN  /\ IF p.end_date < p.start_date \/ p.end_time <= p.start_time
           THEN shifts' = shifts /\ ret' = [r EXCEPT !.status = "invalid_range"]
           ELSE IF p.tech_id \notin TechIds
           THEN shifts' = shifts /\ ret' = [r EXCEPT !.status = "tech_not_found"]
           ELSE \E out \in {PublishLoop(p.start_date, shifts, 0, 0, p)} :
                    /\ Len(out.rows) <= MaxShifts
                    /\ shifts' = out.rows
                    /\ ret' = [r EXCEPT !.created = out.created,
                                        !.deleted = out.deleted]
        /\ UNCHANGED <<now, holds, appts, others>>

(* ----------------------------- the clock ------------------------------ *)
Tick ==
    /\ now < MaxTime
    /\ now' = now + 1
    /\ ret' = [Response EXCEPT !.op = "tick"]
    /\ UNCHANGED <<shifts, holds, appts, others>>

(* ------------------------ the availability query ---------------------- *)
GetAvailableTimes(q, tech_order, scan, freebusy_batch) ==
    LET r == [Response EXCEPT
                !.op = "get_available_times", !.q = q,
                !.tech_order = tech_order, !.scan = scan,
                !.freebusy = freebusy_batch]
    IN  /\ ret' = IF skill_lookup_raises(q)
                  THEN [r EXCEPT !.status = "multiple_rows"]
                  ELSE IF get_available_times_raises(q, tech_order, scan,
                                                     freebusy_batch)
                  THEN [r EXCEPT !.status = "freebusy_error"]
                  ELSE [r EXCEPT !.slots =
                          get_available_times(q, tech_order, scan,
                                              freebusy_batch)]
        /\ UNCHANGED <<now, shifts, holds, appts, others>>

(* ---------------------------- CallRecorder ---------------------------- *)
\* messages captured in one call
MaxMsgs == 3

\* MAX_BATCH of _consumer_loop (50 in the code)
MAX_BATCH == 2

\* what is said, and who says it
Texts == {"Hi", "hi", "ok"}
Senders == {"user", "agent"}

\* _norm: whitespace collapsed and lower case
_norm(text) == IF text = "Hi" THEN "hi" ELSE text

\* the recorder after enable(): the consumer task waits for its first item.
\* consumer: where _consumer_loop stands ("get_first": await queue.get();
\* "get_next": await wait_for(queue.get()); "insert": inside
\* _insert_messages; "cancelled": ended by CancelledError); items: its batch;
\* handed: the batches _insert_messages was called with; captured: the
\* messages put on the queue; shutdown: where shutdown() stands
NewCallRecorder ==
    [_queue |-> <<>>, consumer |-> "get_first", items |-> <<>>,
     handed |-> <<>>, captured |-> <<>>, _closed |-> FALSE,
     shutdown |-> "none", _last_user_text |-> "none",
     _last_agent_text |-> "none"]

\* _on_user_text / _on_agent_text: a repeat of the sender's last text is
\* dropped, anything else goes on the queue
OnText(sender, text) ==
    LET last == IF sender = "user" THEN rec._last_user_text
                ELSE rec._last_agent_text
        msg == [sender |-> sender, text |-> text, at |-> Len(rec.captured) + 1]
    IN  /\ rec.shutdown = "none"
        /\ Len(rec.captured) < MaxMsgs
        /\ _norm(text) # last
        /\ rec' = [rec EXCEPT
                     !._last_user_text =
                         IF sender = "user" THEN _norm(text) ELSE @,
                     !._last_agent_text =
                         IF sender = "agent" THEN _norm(text) ELSE @,
                     !.captured = Append(@, msg),
                     !._queue = Append(@, msg)]
        /\ UNCHANGED <<now, shifts, holds, appts, ret, calls>>

\* except asyncio.CancelledError: await self._drain_remaining(); raise.  The
\* batch in items goes with the frame; _drain_remaining hands over what the
\* queue holds, if anything
AfterCancel(r) ==
    [r EXCEPT !.consumer = "cancelled", !.items = <<>>, !._queue = <<>>,
              !.handed = IF r._queue # <<>> THEN Append(@, r._queue) ELSE @]

\* _consumer_loop: item = await self._queue.get(); items.append(item)
ConsumerGetFirst ==
    /\ rec.shutdown = "none"
    /\ rec.consumer = "get_first"
    /\ rec._queue # <<>>
    /\ rec' = [rec EXCEPT !.items = <<Head(rec._queue)>>,
                          !._queue = Tail(@),
                          !.consumer = "get_next"]
    /\ UNCHANGED <<now, shifts, holds, appts, ret, calls>>

\* nxt = await asyncio.wait_for(self._queue.get(), timeout=BATCH_MS): an item
\* arrives in time and joins the batch
ConsumerGetNext ==
    /\ rec.shutdown = "none"
    /\ rec.consumer = "get_next"
    /\ Len(rec.items) < MAX_BATCH
    /\ rec._queue # <<>>
    /\ rec' = [rec EXCEPT !.items = Append(@, Head(rec._queue)),
                          !._queue = Tail(@)]
    /\ UNCHANGED <<now, shifts, holds, appts, ret, calls>>

\* the batch is full or the wait timed out on an empty queue:
\* await self._insert_messages(items)
ConsumerInsert ==
    /\ rec.shutdown = "none"
    /\ rec.consumer = "get_next"
    /\ Len(rec.items) >= MAX_BATCH \/ rec._queue = <<>>
    /\ rec' = [rec EXCEPT !.handed = Append(@, rec.items),
                          !.consumer = "insert"]
    /\ UNCHANGED <<now, shifts, holds, appts, ret, calls>>

\* _insert_messages returns and the loop starts over with items = []
ConsumerInserted ==
    /\ rec.shutdown = "none"
    /\ rec.consumer = "insert"
    /\ rec' = [rec EXCEPT !.items = <<>>, !.consumer = "get_first"]
    /\ UNCHANGED <<now, shifts, holds, appts, ret, calls>>

\* shutdown() up to "await self._consumer_task": _closed is set and the
\* consumer task is cancelled
ShutdownBegin ==
    /\ rec.shutdown = "none"
    /\ ~rec._closed
    /\ rec' = [rec EXCEPT !._closed = TRUE, !.shutdown = "stopping"]
    /\ UNCHANGED <<now, shifts, holds, appts, ret, calls>>

\* the consumer task is resumed with CancelledError at the await it stands at
ConsumerCancelled ==
    /\ rec.shutdown = "stopping"
    /\ rec.consumer # "cancelled"
    /\ rec' = AfterCancel(rec)
    /\ UNCHANGED <<now, shifts, holds, appts, ret, calls>>

\* _drain_and_stop_consumer drains once more and shutdown() runs to its end
ShutdownReturn ==
    /\ rec.shutdown = "stopping"
    /\ rec.consumer = "cancelled"
    /\ rec' = [rec EXCEPT !.shutdown = "returned", !._queue = <<>>,
                          !.handed = IF rec._queue # <<>>
                                     THEN Append(@, rec._queue) ELSE @]
    /\ UNCHANGED <<now, shifts, holds, appts, ret, calls>>

(* --------------------------- specifications --------------------------- *)
Init ==
    /\ now = 0
    /\ shifts = <<>>
    /\ holds = <<>>
    /\ appts = <<>>
    /\ ret = Response
    /\ calls = [c \in Callers |-> Idle]
    /\ rec = NewCallRecorder

\* the arguments callers pass: a tech or user id nobody has ("tX", "uX"),
\* back-to-back and overlapping intervals, a short and a long ttl
BookTechs == {"t1", "t2", "tX"}
BookIvals == {Interval(s, s + 2) : s \in 0..(MaxTime - 2)}
TTLs == {0, 3}

\* the orders in which the database may return the techs
TechOrders == {<<"t1", "t2", "t3", "t4">>, <<"t4", "t3", "t2", "t1">>}

\* what freebusy_batch may answer for the calendars it is asked about
FreeBusyAnswers == {<<>>, [c1 |-> <<Interval(0, 1)>>]}

\* one working day published for one tech
PublishInputs ==
    {[tech_id |-> x[1], start_date |-> 0, end_date |-> 0, start_time |-> x[2],
      end_time |-> x[2] + 2, weekdays |-> {None}, clear_overlaps |-> FALSE] :
        x \in {<<"t1", 1>>, <<"t2", 0>>}}

Next ==
    \/ Tick
    \/ \E t \in BookTechs, u \in Users, iv \in BookIvals, ttl \in TTLs :
          hold_slot(t, u, iv.start, iv.end, ttl, FALSE, "none")
    \/ \E u \in Users \cup {"uX"}, t \in BookTechs, iv \in BookIvals :
          create_meeting(u, t, iv.start, iv.end, "none")
    \/ \E u \in Users, ord \in TechOrders, fb \in FreeBusyAnswers :
          create_earliest_meeting(u, "PLUMBING", 2, "P1", ord, "fwd", fb, "none")
    \/ \E n \in 0..MaxRows, iv \in BookIvals \cup {Interval(None, None)},
          st \in {"none", "completed"} :
          update_meeting(Str(n), iv.start, iv.end, st, "none", "none")
    \/ \E n \in 0..MaxRows : cancel_meeting(Str(n), "ok")
    \/ \E p \in PublishInputs : publish_availability_for_range(p)

Spec == Init /\ [][Next]_vars

(* ------------------- two callers, statement by statement -------------- *)
\* the callers whose INSERT has not been committed yet
InFlight == {d \in Callers : calls[d].pc \in {"hold_insert", "create_insert"}}

\* hold_slot up to the session: now is read and expires_at computed
hold_slot_begin(c, tech_id, user_id, start, end, ttl_seconds) ==
    /\ calls[c].pc = "idle"
    /\ calls' = [calls EXCEPT ![c] =
                   [pc |-> "hold_insert", op |-> "hold_slot", status |-> "none",
                    tech |-> tech_id, user |-> user_id, start |-> start,
                    end |-> end,
                    expires_at |-> ExpiresAt(end, ttl_seconds),
                    seen |-> InFlight]]
    /\ UNCHANGED <<now, shifts, holds, appts, ret, rec>>

\* db.add(h); await db.commit(), or the rollback and the RuntimeError
hold_slot_insert(c) ==
    LET k == calls[c]
        h == [id |-> Len(holds) + 1, tech |-> k.tech, user |-> k.user,
              start |-> k.start, end |-> k.end, expires_at |-> k.expires_at]
    IN  /\ k.pc = "hold_insert"
        /\ IF HoldInsertFails(h)
           THEN /\ holds' = holds
                /\ calls' = [calls EXCEPT ![c].pc = "done",
                                          ![c].status = "conflict"]
           ELSE /\ holds' = Append(holds, h)
                /\ calls' = [calls EXCEPT ![c].pc = "done", ![c].status = "ok"]
        /\ UNCHANGED <<now, shifts, appts, ret, rec>>

\* create_meeting up to the INSERT: the user and the tech are looked up
create_meeting_begin(c, user_id, tech_id, start, end) ==
    LET k == [Idle EXCEPT !.op = "create_meeting", !.tech = tech_id,
                          !.user = user_id, !.start = start, !.end = end,
                          !.seen = InFlight]
    IN  /\ calls[c].pc = "idle"
        /\ calls' = [calls EXCEPT ![c] =
                       IF user_id \notin Users
                       THEN [k EXCEPT !.pc = "done", !.status = "user_not_found"]
                       ELSE IF tech_id \notin TechIds
                       THEN [k EXCEPT !.pc = "done", !.status = "tech_not_found"]
                       ELSE [k EXCEPT !.pc = "create_insert"]]
        /\ UNCHANGED <<now, shifts, holds, appts, ret, rec>>

\* db.add(a); await db.commit(), or the rollback and the RuntimeError
create_meeting_insert(c) ==
    LET k == calls[c]
        a == [id |-> NewUuid, no |-> NextAppointmentNo, tech |-> k.tech,
              user |-> k.user,
              start |-> k.start, end |-> k.end, status |-> "scheduled",
              request_text |-> "none", google_event_id |-> "none"]
    IN  /\ k.pc = "create_insert"
        /\ IF ApptInsertFails(a)
           THEN /\ appts' = appts
                /\ calls' = [calls EXCEPT ![c].pc = "done",
                                          ![c].status = "conflict"]
           ELSE /\ appts' = Append(appts, a)
                /\ calls' = [calls EXCEPT ![c].pc = "done", ![c].status = "ok"]
        /\ UNCHANGED <<now, shifts, holds, ret, rec>>

NextRace ==
    \/ Tick
    \/ \E c \in Callers, t \in BookTechs, u \in Users, iv \in BookIvals,
          ttl \in TTLs :
          hold_slot_begin(c, t, u, iv.start, iv.end, ttl)
    \/ \E c \in Callers : hold_slot_insert(c)
    \/ \E c \in Callers, u \in Users \cup {"uX"}, t \in BookTechs,
          iv \in BookIvals :
          create_meeting_begin(c, u, t, iv.start, iv.end)
    \/ \E c \in Callers : create_meeting_insert(c)

SpecRace == Init /\ [][NextRace]_vars

(* ------------------------ availability under load --------------------- *)
\* shifts published for the eligible techs t1 and t2 (t1 twice, overlapping),
\* for the inactive t3 and for t4, who lacks the skill "plumbing"
AvailPublishInputs ==
    {[tech_id |-> x[1], start_date |-> 0, end_date |-> 0, start_time |-> x[2],
      end_time |-> x[3], weekdays |-> {None}, clear_overlaps |-> FALSE] :
        x \in {<<"t1", 0, 3>>, <<"t1", 1, 3>>, <<"t2", 0, 3>>, <<"t3", 0, 3>>,
               <<"t4", 0, 2>>}}

\* a limit no query of the model can reach
Unlimited == MaxShifts * 7 * DayLen + 1

\* the search windows asked for, each with whether Google is consulted: the
\* default window with and without, and an explicit one without
Windows == {<<None, None, FALSE>>, <<None, None, TRUE>>, <<1, 3, FALSE>>}

Queries ==
    {[skill |-> "PLUMBING", duration_min |-> x[1], priority |-> "P1",
      date_from |-> w[1], date_to |-> w[2], limit |-> x[2],
      respect_google_busy |-> w[3]] :
        x \in {<<1, Unlimited>>, <<1, 2>>, <<2, Unlimited>>}, w \in Windows}
    \cup
    {[skill |-> "Drain", duration_min |-> 1, priority |-> "P1",
      date_from |-> None, date_to |-> None, limit |-> Unlimited,
      respect_google_busy |-> FALSE]}

\* a busy calendar is only ever reported to a query that asks for it
FreeBusyFor(q) ==
    IF q.respect_google_busy THEN {[c1 |-> <<Interval(0, 1)>>]} ELSE {<<>>}

NextAvail ==
    \/ Tick
    \/ \E p \in AvailPublishInputs : publish_availability_for_range(p)
    \/ \E iv \in BookIvals : hold_slot("t1", "u1", iv.start, iv.end, 0, FALSE, "none")
    \/ \E iv \in BookIvals \cup {Interval(2, 1)} :
          create_meeting("u1", "t1", iv.start, iv.end, "none")
    \/ \E q \in Queries, ord \in TechOrders : \E fb \in FreeBusyFor(q) :
          GetAvailableTimes(q, ord, "fwd", fb)

SpecAvail == Init /\ [][NextAvail]_vars

(* --------------- bookings with a calendar that may fail ---------------- *)
\* intervals callers pass: a proper one and one that ends before it starts
OpsIvals == {Interval(0, 2), Interval(2, 1)}

\* ttl_seconds callers pass: negative, zero and long
OpsTTLs == {-1, 0, 3}

\* show_tentative_on_google with what upsert_event then does
Tentative == {<<FALSE, "none">>, <<TRUE, "event">>, <<TRUE, "raise">>}

\* the changes update_meeting is asked for: only start, only end, a status
\* with a request text, and a status the enum does not have
Updates ==
    {[start |-> 2, end |-> None, status |-> "none", request_text |-> "none"],
     [start |-> None, end |-> 1, status |-> "none", request_text |-> "none"],
     [start |-> None, end |-> None, status |-> "completed",
      request_text |-> "leak"],
     [start |-> 1, end |-> 3, status |-> "bogus", request_text |-> "leak"]}

\* a working day for t1, and a range that ends when it starts
OpsPublishInputs ==
    {[tech_id |-> "t1", start_date |-> 0, end_date |-> 0, start_time |-> x[1],
      end_time |-> x[2], weekdays |-> {None}, clear_overlaps |-> FALSE] :
        x \in {<<0, 3>>, <<2, 2>>}}

NextOps ==
    \/ Tick
    \/ \E p \in OpsPublishInputs : publish_availability_for_range(p)
    \/ \E iv \in OpsIvals, ttl \in OpsTTLs, g \in Tentative :
          hold_slot("t1", "u1", iv.start, iv.end, ttl, g[1], g[2])
    \/ \E iv \in OpsIvals, up \in UpsertAnswers :
          create_meeting("u1", "t1", iv.start, iv.end, up)
    \/ \E n \in 0..(MaxRows - 1), x \in Updates, up \in UpsertAnswers :
          update_meeting(Str(n), x.start, x.end, x.status, x.request_text, up)
    \/ \E n \in 0..(MaxRows - 1), del \in DeleteAnswers :
          cancel_meeting(Str(n), del)

SpecOps == Init /\ [][NextOps]_vars
(* ------------------- queries at the edges of the input ---------------- *)
\* the plain query
PlainQuery ==
    [skill |-> "PLUMBING", duration_min |-> 1, priority |-> "P1",
     date_from |-> None, date_to |-> None, limit |-> Unlimited,
     respect_google_busy |-> TRUE]

\* the plain query, and the plain query without Google, with a duration or a
\* limit of zero or less, with a skill nobody registered, with a pattern
\* matching every skill, and with a window after every shift
EdgeQueries ==
    {PlainQuery,
     [PlainQuery EXCEPT !.respect_google_busy = FALSE],
     [PlainQuery EXCEPT !.duration_min = 0],
     [PlainQuery EXCEPT !.duration_min = -1],
     [PlainQuery EXCEPT !.limit = 0],
     [PlainQuery EXCEPT !.limit = -1],
     [PlainQuery EXCEPT !.skill = "roofing"],
     [PlainQuery EXCEPT !.skill = "%"],
     [PlainQuery EXCEPT !.date_from = 2 * DayLen, !.date_to = 3 * DayLen]}

\* freebusy_batch answers or raises
EdgeFreeBusy == {[c1 |-> <<Interval(0, 1)>>], FreeBusyError}

\* shifts for the eligible t1 and the inactive t3
EdgePublishInputs ==
    {[tech_id |-> t, start_date |-> 0, end_date |-> 0, start_time |-> 0,
      end_time |-> 3, weekdays |-> {None}, clear_overlaps |-> FALSE] :
        t \in {"t1", "t3"}}

NextQuery ==
    \/ Tick
    \/ \E p \in EdgePublishInputs : publish_availability_for_range(p)
    \/ \E iv \in BookIvals : hold_slot("t1", "u1", iv.start, iv.end, 0, FALSE, "none")
    \/ \E iv \in BookIvals : create_meeting("u1", "t1", iv.start, iv.end, "none")
    \/ \E q \in EdgeQueries, ord \in TechOrders, fb \in EdgeFreeBusy :
          GetAvailableTimes(q, ord, "fwd", fb)

SpecQuery == Init /\ [][NextQuery]_vars

(* ------------------ queries with and without calendars --------------- *)
\* a plumbing query (t1 has a calendar) and a drain query (t4, the only drain
\* tech, has none), each with and without Google
SourceQueries ==
    {[PlainQuery EXCEPT !.skill = sk, !.respect_google_busy = g] :
        sk \in {"PLUMBING", "Drain"}, g \in BOOLEAN}

\* a working day for t1, t2 and t4
SourcePublishInputs ==
    {[tech_id |-> t, start_date |-> 0, end_date |-> 0, start_time |-> 0,
      end_time |-> 3, weekdays |-> {None}, clear_overlaps |-> FALSE] :
        t \in {"t1", "t2", "t4"}}

NextSource ==
    \/ Tick
    \/ \E p \in SourcePublishInputs : publish_availability_for_range(p)
    \/ \E q \in SourceQueries, ord \in TechOrders, fb \in FreeBusyAnswers :
          GetAvailableTimes(q, ord, "fwd", fb)

SpecSource == Init /\ [][NextSource]_vars

(* ------------------------- one recorded call -------------------------- *)
NextRecorder ==
    \/ \E sender \in Senders, text \in Texts : OnText(sender, text)
    \/ ConsumerGetFirst
    \/ ConsumerGetNext
    \/ ConsumerInsert
    \/ ConsumerInserted
    \/ ShutdownBegin
    \/ ConsumerCancelled
    \/ ShutdownReturn

SpecRecorder == Init /\ [][NextRecorder]_vars

(* ---------------------- booking over expired holds ------------------- *)
\* holds and appointments for two techs while the clock runs
NextExpiry ==
    \/ Tick
    \/ \E t \in {"t1", "t2"}, iv \in BookIvals, ttl \in TTLs :
          hold_slot(t, "u1", iv.start, iv.end, ttl, FALSE, "none")
    \/ \E t \in {"t1", "t2"}, iv \in BookIvals :
          create_meeting("u1", t, iv.start, iv.end, "none")

SpecExpiry == Init /\ [][NextExpiry]_vars

(* ------------------------- publishing ranges -------------------------- *)
\* the days ranges are published over
MaxDay == 1

\* ranges of one or two days (and one that ends before it starts), for a tech
\* in UTC and one west of it, over the whole day or a part of it (and one
\* that ends when it starts), with every weekday filter over the days, with
\* and without clearing
RangeInputs ==
    {[tech_id |-> t, start_date |-> d[1], end_date |-> d[2],
      start_time |-> h[1], end_time |-> h[2], weekdays |-> w,
      clear_overlaps |-> c] :
        t \in {"t1", "t4"}, d \in (0..MaxDay) \X (0..MaxDay),
        h \in {<<0, 2>>, <<1, 3>>, <<0, 3>>, <<2, 2>>},
        w \in {{None}} \cup SUBSET (0..MaxDay), c \in BOOLEAN}

NextPublish ==
    \E p \in RangeInputs : publish_availability_for_range(p)

SpecPublish == Init /\ [][NextPublish]_vars

(* ---------------------- appointments by reference -------------------- *)
\* the longest reference passed, blanks and hyphens aside
MaxRefLen == 2

\* the characters references are made of, the blank aside: '#', decimal and
\* hex digits, the hyphen
RefChars == {"#", "0", "1", "2", "a", "-"}

\* every string of up to MaxRefLen of these characters: the numbers with and
\* without '#', the uuids without hyphen, and what is neither
ShortRefs == UNION {[1..n -> RefChars] : n \in 0..MaxRefLen}

\* str(u) of every uuid over some of these digits
UuidRefs == {UuidStr(<<x, y>>) : x \in {"1", "a"}, y \in {"0", "1", "2"}}

\* the strings a caller passes: the short ones, the numbers among them also
\* within blanks, and the uuids as str() prints them
Refs ==
    ShortRefs \cup UuidRefs
        \cup {<<" ">> \o r \o <<" ">> : r \in {<<"0">>, <<"#", "1">>}}

NextRefs ==
    \/ \E up \in {"none", "event"} : create_meeting("u1", "t1", 0, 2, up)
    \/ \E ref \in Refs : read_meeting(ref)
    \/ \E ref \in Refs : update_meeting(ref, 1, 3, "completed", "leak", "none")
    \/ \E ref \in Refs : cancel_meeting(ref, "ok")

SpecRefs == Init /\ [][NextRefs]_vars

(* ------------------- the interval utils on their own ------------------ *)
\* the longest list of blocks or of free intervals handed to the utils
MaxBlocks == 2

\* every Interval(start, end) over the times, the empty ones (end = start) and
\* the inverted ones (end < start) included: the dataclass checks nothing, and
\* hold_slot, create_meeting and update_meeting store such rows
AnyIntervals == {Interval(s, e) : s \in Times, e \in Times}

IntervalLists ==
    UNION {[1..n -> AnyIntervals] : n \in 0..MaxBlocks}

Durations == 1..2
Limits == {0, 1, 2, 10}

\* the arguments of a call of one of the utils, before it runs
UtilArgs ==
    [op |-> "args", util |-> "none", base |-> Interval(0, 0), blocks |-> <<>>,
     intervals |-> <<>>, duration |-> 1, limit |-> 1, out |-> <<>>]

SubtractArgs ==
    {[UtilArgs EXCEPT !.util = "_subtract", !.base = b, !.blocks = bl] :
        b \in AnyIntervals, bl \in IntervalLists}

SplitArgs ==
    {[UtilArgs EXCEPT !.util = "_split_into_slots", !.intervals = ivs,
                      !.duration = d, !.limit = l] :
        ivs \in IntervalLists, d \in Durations, l \in Limits}

InitPure ==
    /\ now = 0
    /\ shifts = <<>>
    /\ holds = <<>>
    /\ appts = <<>>
    /\ calls = [c \in Callers |-> Idle]
    /\ rec = NewCallRecorder
    /\ ret \in SubtractArgs \cup SplitArgs

Subtract ==
    /\ ret.op = "args"
    /\ ret.util = "_subtract"
    /\ ret' = [ret EXCEPT !.op = "_subtract",
                          !.out = _subtract(ret.base, ret.blocks)]
    /\ UNCHANGED <<now, shifts, holds, appts, others>>

SplitIntoSlots ==
    /\ ret.op = "args"
    /\ ret.util = "_split_into_slots"
    /\ ret' = [ret EXCEPT !.op = "_split_into_slots",
                          !.out = _split_into_slots(ret.intervals, ret.duration,
                                                    ret.limit)]
    /\ UNCHANGED <<now, shifts, holds, appts, others>>

NextPure ==
    \/ Subtract
    \/ SplitIntoSlots

SpecPure == InitPure /\ [][NextPure]_vars

(* ------------------------------- claims ------------------------------- *)
LiveHold(h) == h.expires_at > now
LiveAppt(a) == a.status # "canceled"

\* the intervals that commit tech t: its live holds and non-canceled appointments
Commitments(t) ==
    {<<"hold", i>> : i \in {j \in DOMAIN holds : holds[j].tech = t /\ LiveHold(holds[j])}}
    \cup
    {<<"appt", i>> : i \in {j \in DOMAIN appts : appts[j].tech = t /\ LiveAppt(appts[j])}}

RowOf(c) == IF c[1] = "hold" THEN Interval(holds[c[2]].start, holds[c[2]].end)
            ELSE Interval(appts[c[2]].start, appts[c[2]].end)

NoOverlap ==
    \A t \in TechIds : \A c1, c2 \in Commitments(t) :
        c1 # c2 => ~_overlaps(RowOf(c1), RowOf(c2))

\* C1: in every reachable state, no two intervals among one technician's live
\* holds and non-canceled appointments overlap.
C1_NoDoubleBooking == NoOverlap

\* C3: a create_meeting that succeeded did not land on an interval that a live
\* hold of another caller covers for the same technician.
C3_HoldBlocksCreateMeeting ==
    (ret.op = "create_meeting" /\ ret.status = "ok") =>
        ~\E i \in DOMAIN holds :
            /\ holds[i].tech = ret.tech
            /\ holds[i].user # ret.user
            /\ LiveHold(holds[i])
            /\ _overlaps(holds[i], Interval(ret.start, ret.end))

\* the caller of the create_meeting just answered holds a live hold on exactly
\* the technician and interval it asked for
HolderCommits ==
    /\ ret.op = "create_meeting"
    /\ \E i \in DOMAIN holds :
          /\ holds[i].tech = ret.tech
          /\ holds[i].user = ret.user
          /\ holds[i].start = ret.start
          /\ holds[i].end = ret.end
          /\ LiveHold(holds[i])

\* C4: a create_meeting by the holder of a live hold, for the held technician
\* and interval, succeeds with a scheduled appointment, and the state it leaves
\* has no overlap among live holds and non-canceled appointments.
C4_HoldThenCommit ==
    HolderCommits =>
        /\ ret.status = "ok"
        /\ LET a == appts[Len(appts)]
           IN  /\ a.no = ret.no /\ a.tech = ret.tech /\ a.user = ret.user
               /\ a.start = ret.start /\ a.end = ret.end
               /\ a.status = "scheduled"
        /\ NoOverlap

\* every candidate slot of the search create_earliest_meeting made, taken with
\* no limit and for every order of the technicians
Candidates(q, scan, freebusy_batch) ==
    UNION {SeqToSet(get_available_times([q EXCEPT !.limit = Unlimited], ord,
                                        scan, freebusy_batch)) : ord \in TechOrders}

\* C8: the slot create_earliest_meeting books starts no later than any
\* candidate slot of any eligible technician in its search window.
C8_EarliestMeetingIsEarliest ==
    [][(ret'.op = "create_earliest_meeting" /\ ret'.status = "ok") =>
          \A c \in Candidates(ret'.q, ret'.scan, ret'.freebusy) :
              ret'.start <= c.start]_vars

\* two calls ran at the same time: one began while the other's INSERT was
\* still to come
Concurrent(c, d) == c \in calls[d].seen \/ d \in calls[c].seen

\* the call of c got as far as its INSERT and has returned
Attempted(c) == calls[c].pc = "done" /\ calls[c].status \in {"ok", "conflict"}

\* C2: of two concurrent reservations (holds, appointments or one of each) with
\* overlapping intervals for the same technician exactly one succeeds; the
\* other fails with a conflict and leaves no row behind.
C2_ExactlyOneConcurrentReservationWins ==
    \A c, d \in Callers :
        (/\ c # d
         /\ Attempted(c) /\ Attempted(d)
         /\ Concurrent(c, d)
         /\ calls[c].tech = calls[d].tech
         /\ _overlaps(calls[c], calls[d]))
        => /\ {calls[c].status, calls[d].status} = {"ok", "conflict"}
           /\ Len(holds) + Len(appts) = 1

(* ----------------------- claims about availability -------------------- *)
Queried == ret.op = "get_available_times"

\* the window the last query searched
WindowStart(q) == IF q.date_from = None THEN now ELSE q.date_from
WindowEnd(q) ==
    IF q.date_to = None THEN WindowStart(q) + Horizon(q.priority) ELSE q.date_to

\* what Google reported as busy for the calendar of tech t
Reported(t, freebusy_batch) ==
    IF Techs[t].cal \in DOMAIN freebusy_batch
    THEN SeqToSet(freebusy_batch[Techs[t].cal])
    ELSE {}

\* C5: no slot get_available_times returns for a technician overlaps a
\* non-canceled appointment or a non-expired hold of that technician, nor,
\* when Google busy time is respected, a busy interval Google reported for the
\* technician's calendar.
C5_SlotsAvoidBusy ==
    Queried =>
        \A i \in DOMAIN ret.slots :
            LET s == ret.slots[i]
            IN  /\ \A a \in SeqToSet(appts) :
                       (a.tech = s.tech_id /\ LiveAppt(a)) => ~_overlaps(s, a)
                /\ \A h \in SeqToSet(holds) :
                       (h.tech = s.tech_id /\ LiveHold(h)) => ~_overlaps(s, h)
                /\ ret.q.respect_google_busy =>
                       \A b \in Reported(s.tech_id, ret.freebusy) :
                           ~_overlaps(s, b)

\* a query that consulted Google returned a slot of t1 while t1 had a live hold
\* or appointment inside the window and a busy interval reported by Google
C5_Witness ==
    /\ Queried
    /\ ret.q.respect_google_busy
    /\ Reported("t1", ret.freebusy) # {}
    /\ \E i \in DOMAIN ret.slots : ret.slots[i].tech_id = "t1"
    /\ \E c \in Commitments("t1") :
           /\ RowOf(c).start < RowOf(c).end
           /\ RowOf(c).end > WindowStart(ret.q)
           /\ RowOf(c).start < WindowEnd(ret.q)

\* the slot [s, e) of tech t is among the slots of a query for exactly that
\* window and duration, the techs and shifts being read in the given orders
SlotQuery(t, s, e) ==
    [skill |-> CHOOSE k \in Techs[t].skills : TRUE, duration_min |-> e - s,
     priority |-> "P1", date_from |-> s, date_to |-> e, limit |-> Unlimited,
     respect_google_busy |-> FALSE]

OfferedIn(t, s, e, ord, scan) ==
    LET r == get_available_times(SlotQuery(t, s, e), ord, scan, <<>>)
    IN  \E i \in DOMAIN r :
            r[i].tech_id = t /\ r[i].start = s /\ r[i].end = e

Scans == {"fwd", "rev"}
Offered(t, s, e) == \A ord \in TechOrders, scan \in Scans : OfferedIn(t, s, e, ord, scan)
Withheld(t, s, e) == \A ord \in TechOrders, scan \in Scans : ~OfferedIn(t, s, e, ord, scan)

\* tech t is active and one of t's shifts contains [s, e)
Coverable(t, s, e) ==
    /\ t \in TechIds
    /\ Techs[t].active
    /\ Techs[t].skills # {}
    /\ s < e
    /\ \E i \in DOMAIN shifts :
           shifts[i].tech = t /\ shifts[i].start <= s /\ e <= shifts[i].end

\* no live hold other than the rows in but, and no live appointment, of tech t
\* overlaps [s, e)
NoOtherCommitment(t, s, e, but) ==
    /\ \A j \in DOMAIN holds :
           (j \notin but /\ holds[j].tech = t /\ LiveHold(holds[j]))
               => ~_overlaps(holds[j], Interval(s, e))
    /\ \A j \in DOMAIN appts :
           (appts[j].tech = t /\ LiveAppt(appts[j]))
               => ~_overlaps(appts[j], Interval(s, e))

\* C6: while a hold is live, get_available_times does not offer the hold's
\* interval for its technician; once the hold has expired, its row still in
\* the table, the interval is offered again unless another commitment
\* overlaps it.
C6_HoldWithholdsUntilExpiry ==
    \A i \in DOMAIN holds :
        LET h == holds[i]
        IN  /\ (LiveHold(h) /\ Coverable(h.tech, h.start, h.end))
                   => Withheld(h.tech, h.start, h.end)
            /\ (/\ ~LiveHold(h)
                /\ Coverable(h.tech, h.start, h.end)
                /\ NoOtherCommitment(h.tech, h.start, h.end, {i}))
                   => Offered(h.tech, h.start, h.end)

\* an expired hold is still in the table and its interval is offered again
C6_Witness ==
    \E i \in DOMAIN holds :
        /\ ~LiveHold(holds[i])
        /\ Coverable(holds[i].tech, holds[i].start, holds[i].end)
        /\ Offered(holds[i].tech, holds[i].start, holds[i].end)

\* the appointment the last cancel_meeting canceled
Canceled == appts[CHOOSE i \in DOMAIN appts : appts[i].no = ret.no]

JustCanceled == ret.op = "cancel_meeting" /\ ret.status = "ok"

Place(tech_order, t) == CHOOSE i \in DOMAIN tech_order : tech_order[i] = t

\* C9: the slots get_available_times returns are in non-decreasing order of
\* start, and slots of equal start keep the order in which their technicians
\* were enumerated.
C9_SlotsSortedStably ==
    Queried =>
        \A i, j \in DOMAIN ret.slots :
            i < j =>
                /\ ret.slots[i].start <= ret.slots[j].start
                /\ ret.slots[i].start = ret.slots[j].start =>
                       Place(ret.tech_order, ret.slots[i].tech_id)
                           <= Place(ret.tech_order, ret.slots[j].tech_id)

\* two techs are offered the same start, and a later slot of the first of them
\* follows: the sort has interleaved what the loop over the techs gathered
C9_Witness ==
    /\ Queried
    /\ \E i, j, k \in DOMAIN ret.slots :
           /\ i < j /\ j < k
           /\ ret.slots[i].start = ret.slots[j].start
           /\ ret.slots[i].tech_id # ret.slots[j].tech_id
           /\ ret.slots[k].tech_id = ret.slots[i].tech_id
           /\ ret.slots[k].start > ret.slots[j].start

\* C10: every slot get_available_times returns belongs to an active technician
\* who has the requested skill, is exactly duration_min long, and lies inside
\* one of that technician's shifts and inside [window_start, window_end).
C10_SlotsAreEligible ==
    Queried =>
        \A i \in DOMAIN ret.slots :
            LET s == ret.slots[i]
                t == s.tech_id
            IN  /\ t \in TechIds
                /\ Techs[t].active
                /\ \E k \in Techs[t].skills : ilike(k, ret.q.skill)
                /\ s.end - s.start = ret.q.duration_min
                /\ \E n \in DOMAIN shifts :
                       /\ shifts[n].tech = t
                       /\ shifts[n].start <= s.start
                       /\ s.end <= shifts[n].end
                /\ WindowStart(ret.q) <= s.start
                /\ s.end <= WindowEnd(ret.q)

\* slots were returned while an inactive tech and a tech without the skill had
\* shifts in the window, and a shift of the slot's tech reached out of the window
C10_Witness ==
    /\ Queried
    /\ ret.slots # <<>>
    /\ \E n \in DOMAIN shifts :
           /\ \/ ~Techs[shifts[n].tech].active
              \/ \A k \in Techs[shifts[n].tech].skills : ~ilike(k, ret.q.skill)
           /\ shifts[n].end > WindowStart(ret.q)
           /\ shifts[n].start < WindowEnd(ret.q)
    /\ \E n \in DOMAIN shifts :
           /\ shifts[n].tech = ret.slots[1].tech_id
           /\ shifts[n].start < WindowStart(ret.q)

(* ------------------ claims about the calendar and the rows ------------ *)
\* the row the last operation names is in its table
HoldPersisted == \E i \in DOMAIN holds : holds[i].id = ret.no
ApptPersisted == \E i \in DOMAIN appts : appts[i].no = ret.no

\* C11: when upsert_event fails during create_meeting, or during hold_slot
\* with a tentative event asked for, the operation still returns its record
\* without raising, and the committed row stays in its table.
C11_UpsertFailureIsSwallowed ==
    /\ (ret.op = "create_meeting" /\ ret.calendar = "raise")
           => (ret.status = "ok" /\ ApptPersisted)
    /\ (ret.op = "hold_slot" /\ ret.calendar = "raise")
           => (ret.status = "ok" /\ HoldPersisted)

\* C13: cancel_meeting on an appointment with a mirrored event succeeds and
\* leaves the stored status canceled even when delete_event fails.
C13_CancelSurvivesDeleteFailure ==
    (ret.op = "cancel_meeting" /\ ret.calendar = "raise") =>
        /\ ret.status = "ok"
        /\ \E i \in DOMAIN appts :
               appts[i].no = ret.no /\ appts[i].status = "canceled"

\* delete_event was called for a mirrored appointment and failed
C13_Witness ==
    /\ ret.op = "cancel_meeting"
    /\ ret.calendar = "raise"
    /\ ret.steps = <<"commit", "delete_event">>
    /\ \E i \in DOMAIN appts :
           appts[i].no = ret.no /\ appts[i].google_event_id = "ev"

\* C14: update_meeting calls the calendar only after the commit of the update
\* has succeeded; if the commit fails no calendar call is made and the stored
\* appointment keeps its start, end, status and request text.
C14_UpdateWritesThenSyncs ==
    [][ret'.op = "update_meeting" =>
          /\ \A k \in DOMAIN ret'.steps :
                 ret'.steps[k] = "upsert_event" =>
                     \E j \in 1..(k - 1) : ret'.steps[j] = "commit"
          /\ ret'.status = "conflict" =>
                 /\ appts' = appts
                 /\ \A k \in DOMAIN ret'.steps : ret'.steps[k] # "upsert_event"]_vars

\* the commit of an update to a mirrored appointment failed
C14_Witness ==
    /\ ret.op = "update_meeting"
    /\ ret.status = "conflict"
    /\ ret.steps = <<"rollback">>
    /\ \E i \in DOMAIN appts :
           /\ appts[i].no = ret.no
           /\ appts[i].google_event_id = "ev"
           /\ appts[i].status = "scheduled"
           /\ appts[i].request_text = "none"

\* C15: no update_meeting, cancel_meeting or creation of another appointment
\* changes an appointment_no once assigned, and no two appointments, canceled
\* or not, carry the same number.
C15_AppointmentNoIsStable ==
    [][/\ \A i \in DOMAIN appts :
              i \in DOMAIN appts' /\ appts'[i].no = appts[i].no
       /\ \A i, j \in DOMAIN appts' :
              i # j => appts'[i].no # appts'[j].no]_vars

\* an appointment was created after another had been canceled
C15_Witness ==
    /\ Len(appts) = 2
    /\ appts[1].status = "canceled"
    /\ ret.op = "create_meeting"
    /\ ret.no = appts[2].no

\* C16: every hold hold_slot persisted has expires_at <= end, for every
\* ttl_seconds, zero and negative included, and wherever now lies.
C16_HoldExpiresByItsEnd ==
    \A i \in DOMAIN holds : holds[i].expires_at <= holds[i].end

\* a hold was taken when even the shortest ttl would have outlived its end
C16_Witness ==
    /\ ret.op = "hold_slot"
    /\ ret.status = "ok"
    /\ \E i \in DOMAIN holds :
           /\ holds[i].id = ret.no
           /\ now + 1 > holds[i].end
           /\ holds[i].expires_at = holds[i].end

\* C17: every persisted shift, hold and appointment has end > start, whatever
\* was passed to publish_availability_for_range, hold_slot, create_meeting
\* and update_meeting.
C17_RowsEndAfterStart ==
    /\ \A i \in DOMAIN shifts : shifts[i].end > shifts[i].start
    /\ \A i \in DOMAIN holds : holds[i].end > holds[i].start
    /\ \A i \in DOMAIN appts : appts[i].end > appts[i].start

(* --------------------- claims about the edges of a query -------------- *)
\* the intervals of a list of slots, without their source
Bare(slots) == [i \in DOMAIN slots |-> [tech_id |-> slots[i].tech_id,
                                        start |-> slots[i].start,
                                        end |-> slots[i].end]]

\* C12: when the free/busy lookup fails while get_available_times respects
\* Google busy time, the query does not raise: it returns the slots computed
\* from the shifts, appointments and holds alone.
C12_FreeBusyFailureDegrades ==
    (/\ Queried
     /\ ret.q.respect_google_busy
     /\ FreeBusyRaises(ret.freebusy)
     /\ ~skill_lookup_raises(ret.q))
        => /\ ret.status = "ok"
           /\ Bare(ret.slots) =
                  Bare(get_available_times(
                           [ret.q EXCEPT !.respect_google_busy = FALSE],
                           ret.tech_order, ret.scan, <<>>))

\* no registered skill matches the pattern
SkillUnknown(q) == \A k \in Skills : ~ilike(k, q.skill)

\* no active tech with the skill has a shift that intersects the window
NoShiftInWindow(q) ==
    \A i \in DOMAIN shifts :
        (/\ Techs[shifts[i].tech].active
         /\ \E k \in Techs[shifts[i].tech].skills : ilike(k, q.skill))
            => ~(/\ shifts[i].end > WindowStart(q)
                 /\ shifts[i].start < WindowEnd(q))

\* the empty answers the claim names
Degenerate(q) ==
    \/ q.duration_min <= 0
    \/ q.limit <= 0
    \/ SkillUnknown(q)
    \/ (Cardinality(SkillRows(q.skill)) = 1 /\ NoShiftInWindow(q))

PointsOf(iv) == {t \in 0..(MaxTime - 1) : iv.start <= t /\ t < iv.end}

PointsOfAll(ivs) == UNION {PointsOf(ivs[i]) : i \in DOMAIN ivs}

Subtracted == ret.op = "_subtract"

\* C18: for every base interval and every list of busy intervals,
\* _subtract(base, busy) returns pairwise disjoint non-empty intervals, none of
\* which overlaps a busy interval, and whose union is exactly the points of
\* base that no busy interval covers.
C18_SubtractIsExact ==
    Subtracted =>
        /\ \A i \in DOMAIN ret.out : ret.out[i].end > ret.out[i].start
        /\ \A i, j \in DOMAIN ret.out :
              i # j => PointsOf(ret.out[i]) \cap PointsOf(ret.out[j]) = {}
        /\ \A i \in DOMAIN ret.out : \A k \in DOMAIN ret.blocks :
              ~_overlaps(ret.out[i], ret.blocks[k])
        /\ PointsOfAll(ret.out) = PointsOf(ret.base) \ PointsOfAll(ret.blocks)

\* the slots the cursor rule gives for one free interval: one for every k >= 0
\* with start + (k + 1) * duration <= end
SlotsOf(iv, duration) ==
    LET n == IF iv.end - iv.start >= duration
             THEN (iv.end - iv.start) \div duration ELSE 0
    IN  [k \in 1..n |-> Interval(iv.start + (k - 1) * duration,
                                 iv.start + k * duration)]

AllSlotsOf(intervals, duration) ==
    Concat([i \in DOMAIN intervals |-> SlotsOf(intervals[i], duration)])

FirstN(xs, n) == SubSeq(xs, 1, Min(n, Len(xs)))

Split == ret.op = "_split_into_slots"

\* C19: for duration > 0 and limit >= 1, _split_into_slots emits, for each
\* free interval in order, the back-to-back slots
\* [start + k*duration, start + (k+1)*duration) with start + (k+1)*duration
\* <= end, until limit slots are out; one free interval of length 3*duration
\* with limit 10 yields exactly 3 slots.
C19_SplitIsBackToBack ==
    (Split /\ ret.duration > 0 /\ ret.limit >= 1) =>
        /\ ret.out = FirstN(AllSlotsOf(ret.intervals, ret.duration), ret.limit)
        /\ (/\ Len(ret.intervals) = 1
            /\ ret.intervals[1].end - ret.intervals[1].start = 3 * ret.duration
            /\ ret.limit = 10) => Len(ret.out) = 3

\* [0, 3) split into slots of 1 with limit 10
C19_Witness ==
    /\ Split
    /\ ret.intervals = <<Interval(0, 3)>>
    /\ ret.duration = 1
    /\ ret.limit = 10
    /\ ret.out = <<Interval(0, 1), Interval(1, 2), Interval(2, 3)>>

(* ---------------------------------------------------------------------- *)
\* C21: get_available_times changes no stored state (shifts, holds and
\* appointments are the same after the call as before), and two calls with the
\* same arguments, in the same state, at the same instant and with the same
\* calendar answer return the same list.
C21_QueryIsPureAndRepeatable ==
    [][/\ ret'.op = "get_available_times" => UNCHANGED <<shifts, holds, appts>>
       /\ (/\ Queried
           /\ ret'.op = "get_available_times"
           /\ ret.status = "ok"
           /\ ret'.status = "ok"
           /\ ret'.q = ret.q
           /\ ret'.freebusy = ret.freebusy) => ret'.slots = ret.slots]_vars

(* ---------------------------------------------------------------------- *)
ReadMeeting == ret.op = "read_meeting"

\* C22: for every existing appointment, read_meeting called with its public
\* sequence number, with or without a leading '#', and read_meeting called
\* with its internal identifier return records with identical field values.
C22_ReadByNumberEqualsReadById ==
    \A i \in DOMAIN appts :
        LET by_id == ReadOutcome(UuidStr(appts[i].id))
        IN  /\ by_id.status = "ok"
            /\ ReadOutcome(Str(appts[i].no)) = by_id
            /\ ReadOutcome(<<"#">> \o Str(appts[i].no)) = by_id

\* the second appointment, updated and holding a calendar event, was read by
\* its identifier
C22_Witness ==
    /\ ReadMeeting
    /\ Len(appts) = 2
    /\ ret.ref = UuidStr(appts[2].id)
    /\ ret.status = "ok"
    /\ ret.record.appointment_no = 1
    /\ ret.record.request_text = "leak"
    /\ appts[1].request_text = "none"

\* what a reference denotes: a public number when, blanks around it and one
\* leading '#' aside, it is a decimal numeral; an identifier when, hyphens
\* aside, it is UuidLen hex digits
DenotesNumber(ref, n) ==
    LET s == Strip(ref)
        body == IF s # <<>> /\ Head(s) = "#" THEN Tail(s) ELSE s
    IN  /\ body # <<>>
        /\ \A i \in DOMAIN body : IsDigit(body[i])
        /\ ParseInt(body) = n

DenotesId(ref, u) == SelectSeq(Strip(ref), LAMBDA ch : ch # "-") = u

MatchesNone(ref) ==
    \A i \in DOMAIN appts :
        ~DenotesNumber(ref, appts[i].no) /\ ~DenotesId(ref, appts[i].id)

\* C23: read_meeting, update_meeting and cancel_meeting called with a
\* reference that matches neither an existing public sequence number nor an
\* existing internal identifier fail with a NotFound error and leave every
\* stored appointment unchanged.
C23_UnknownReferenceIsNotFound ==
    [][(/\ ret'.op \in {"read_meeting", "update_meeting", "cancel_meeting"}
        /\ MatchesNone(ret'.ref))
          => (ret'.status = "not_found" /\ appts' = appts)]_vars

\* with two appointments stored, update_meeting was called with a numeral no
\* appointment has and cancel_meeting with a string that is no reference
C23_Witness ==
    /\ Len(appts) = 2
    /\ ret.status = "not_found"
    /\ \/ ret.op = "update_meeting" /\ ret.ref = <<"2">>
       \/ ret.op = "cancel_meeting" /\ ret.ref = <<"1", "#">>

(* ---------------------------------------------------------------------- *)
\* freebusy_batch was called for the last query: Google was asked for and an
\* eligible technician has a calendar id
Consulted ==
    /\ ret.q.respect_google_busy
    /\ \E t \in TechIds :
           /\ Techs[t].active
           /\ \E n \in SkillRows(ret.q.skill) : n \in Techs[t].skills
           /\ Techs[t].cal # "none"

\* C24: the source of each slot get_available_times returns is the external
\* marker only when the free/busy collaborator was actually called (an
\* eligible technician has a calendar id), and the internal-only marker
\* otherwise.
C24_SourceTellsWhatWasConsulted ==
    (Queried /\ ret.status = "ok") =>
        \A i \in DOMAIN ret.slots :
            ret.slots[i].source = IF Consulted THEN "db+google" ELSE "db"

(* ---------------------------------------------------------------------- *)
\* the calendar days of [start_date, end_date] the weekday filter lets
\* through, and the interval published for such a day
PublishedDays(p) ==
    {d \in p.start_date..p.end_date :
        p.weekdays = {None} \/ (d % 7) \in p.weekdays}

PublishedShift(p, d) ==
    [tech |-> p.tech_id,
     start |-> d * DayLen + p.start_time - Techs[p.tech_id].tz,
     end |-> d * DayLen + p.end_time - Techs[p.tech_id].tz]

Published == ret.op = "publish_availability_for_range" /\ ret.status = "ok"

\* C25: after publish_availability_for_range with clear_overlaps set, no shift
\* of that technician that existed before the call overlaps a newly inserted
\* shift, while that technician's shifts overlapping none of the new
\* intervals, and all shifts of other technicians, are unchanged: the rows
\* before the inserted ones are the old rows without the overlapped ones.
C25_ClearOverlapsRemovesOnlyOverlapped ==
    [][(Published' /\ ret'.p.clear_overlaps) =>
          SubSeq(shifts', 1, Len(shifts') - ret'.created)
            = SelectSeq(shifts, LAMBDA sh :
                  \/ sh.tech # ret'.p.tech_id
                  \/ \A d \in PublishedDays(ret'.p) :
                         ~_overlaps(sh, PublishedShift(ret'.p, d)))]_vars

\* a publish with clear_overlaps removed a shift and kept another
C25_Witness ==
    /\ Published
    /\ ret.p.clear_overlaps
    /\ ret.deleted >= 1
    /\ ret.created = 1
    /\ Len(shifts) = 2

\* the days of a set in increasing order
RECURSIVE InOrder(_)
InOrder(days) ==
    IF days = {} THEN <<>>
    ELSE LET d == CHOOSE x \in days : \A y \in days : x <= y
         IN  <<d>> \o InOrder(days \ {d})

\* C26: publish_availability_for_range inserts exactly one shift for each
\* calendar day of [start_date, end_date] whose weekday is in the filter
\* (every day when the filter is omitted) and returns that number as
\* shifts_created; a one-day range with no filter creates exactly 1 shift.
C26_OneShiftPerMatchingDay ==
    [][Published' =>
          LET p == ret'.p
              days == InOrder(PublishedDays(p))
              n == Len(shifts') - Len(days)
          IN  /\ ret'.created = Len(days)
              /\ Len(shifts') = Len(shifts) - ret'.deleted + Len(days)
              /\ n >= 0
              /\ \A k \in DOMAIN days :
                     shifts'[n + k] = PublishedShift(p, days[k])
              /\ (p.start_date = p.end_date /\ p.weekdays = {None})
                     => ret'.created = 1]_vars

\* two days were published through a filter that lets one of them through
C26_Witness ==
    /\ Published
    /\ ret.p.start_date < ret.p.end_date
    /\ ret.p.weekdays = {1}
    /\ ret.created = 1
    /\ shifts[Len(shifts)] = PublishedShift(ret.p, 1)

C28_SlotsOfOneTechAreDisjoint ==
    Queried =>
        \A i, j \in DOMAIN ret.slots :
            (i # j /\ ret.slots[i].tech_id = ret.slots[j].tech_id)
                => ~_overlaps(ret.slots[i], ret.slots[j])

(* ---------------------------------------------------------------------- *)
\* a hold of tech t whose expires_at has passed overlaps [s, e)
DeadHoldOverlaps(t, s, e) ==
    \E i \in DOMAIN holds :
        /\ holds[i].tech = t
        /\ ~LiveHold(holds[i])
        /\ _overlaps(holds[i], Interval(s, e))

\* C29: after a hold's expires_at has passed, a hold_slot or a create_meeting
\* for the same technician on an interval overlapping the dead hold succeeds
\* and is not rejected as a conflict, the expired row still being in the
\* table.
C29_DeadHoldBlocksNothing ==
    [][\A t \in TechIds, u \in Users, iv \in BookIvals :
          DeadHoldOverlaps(t, iv.start, iv.end) =>
              /\ \A ttl \in TTLs :
                     hold_slot(t, u, iv.start, iv.end, ttl, FALSE, "none")
                         => /\ ret'.status = "ok"
                            /\ Len(holds') = Len(holds) + 1
                            /\ SubSeq(holds', 1, Len(holds)) = holds
              /\ create_meeting(u, t, iv.start, iv.end, "none")
                     => /\ ret'.status = "ok"
                        /\ Len(appts') = Len(appts) + 1
                        /\ holds' = holds]_vars

\* a hold was just placed over an expired hold of the same technician
C29_Witness ==
    /\ ret.op = "hold_slot"
    /\ ret.status = "ok"
    /\ Len(holds) >= 2
    /\ \E i \in 1..(Len(holds) - 1) :
           /\ holds[i].tech = holds[Len(holds)].tech
           /\ ~LiveHold(holds[i])
           /\ _overlaps(holds[i], holds[Len(holds)])

(* ---------------------------------------------------------------------- *)
\* C30: every user or agent message captured before shutdown() is called has
\* been handed to _insert_messages exactly once and in capture order by the
\* time shutdown() returns, wherever the consumer loop stood when it was
\* cancelled.
C30_ShutdownHandsOverEveryMessage ==
    rec.shutdown = "returned" => Concat(rec.handed) = rec.captured

====
